---- MODULE Spec2Model ----
(***************************************************************************)
(* GoodsManagement (src/unnamed/part_000, lines 711-1060): the goods form, *)
(* its catalog, the exchange-rate fetch started on mount, and the          *)
(* JavaScript number arithmetic the price projection rests on; and        *)
(* SupplyChainAnalysis (src/frontend/src/components/SupplyChainAnalysis.js,*)
(* lines 22-92): the file selection, handleAnalyze and startMonitoring     *)
(* with their requests in flight; DataIngestion (DataIngestion.js, lines   *)
(* 36-350, and its revision with a file preview, lines 382-445); the text  *)
(* analysis of App (App.js, lines 46-170); and TimeSeriesAnalysis          *)
(* (TimeSeriesAnalysis.js, lines 37-56).  Each component's actions leave   *)
(* the others' variables unchanged.                                        *)
(*                                                                         *)
(* Strings the code inspects character by character (the form's field      *)
(* values, which parseFloat reads) are sequences of one-character strings; *)
(* "" is <<>>.  Messages the code only stores are TLA+ strings.            *)
(***************************************************************************)
EXTENDS Integers, Sequences, FiniteSets, TLC

(***************************************************************************)
(* Bounds of the model.                                                    *)
(***************************************************************************)
\* The catalog holds at most MaxGoods records: a submit that would append
\* to a full catalog is not taken.
MaxGoods == 2

\* At most MaxAnalyze analyze requests are sent in a behaviour: a
\* handleAnalyze call that would send one more is not taken.
MaxAnalyze == 2

\* At most MaxUploads uploads are sent in a behaviour.
MaxUploads == 2

\* At most MaxTextRequests text analyses are sent in a behaviour.
MaxTextRequests == 2

\* At most MaxSeriesRequests time-series analyses are sent in a behaviour.
MaxSeriesRequests == 2

\* At most MaxReads files are selected for preview in a behaviour, and at
\* most MaxPreviewUploads uploads sent.
MaxReads == 2

MaxPreviewUploads == 2

(***************************************************************************)
(* JavaScript Number values.                                               *)
(*                                                                         *)
(* A Number is a record [cls, sgn, m, e]:                                  *)
(*   cls = "nan"                      NaN                                  *)
(*   cls = "inf"                      sgn * Infinity                       *)
(*   cls = "fin"                      sgn * m * 10^e, m with no trailing   *)
(*                                    zero (m = 0, e = 0 is zero)          *)
(*   cls = "sub"                      sgn * m * 2^-1074: a subnormal       *)
(*                                    double, m its count of units         *)
(* A finite value is kept as the exact decimal: the rounding of a normal   *)
(* double is a relative error of 2^-53, which no comparison made here (a   *)
(* value against the same value scaled by 3 per cent) can see.  Where the  *)
(* double differs visibly it is modelled as IEEE 754 does it: overflow to  *)
(* Infinity, NaN, and below 1e-318 the quantisation to whole multiples of  *)
(* 2^-1074 with round-half-even.  The sign of zero is not kept.            *)
(***************************************************************************)
NaN == [cls |-> "nan", sgn |-> 1, m |-> 0, e |-> 0]

Infinity(s) == [cls |-> "inf", sgn |-> s, m |-> 0, e |-> 0]

Zero == [cls |-> "fin", sgn |-> 1, m |-> 0, e |-> 0]

RECURSIVE Pow10(_)
Pow10(n) == IF n <= 0 THEN 1 ELSE 10 * Pow10(n - 1)

RECURSIVE NumDigits(_)
NumDigits(n) == IF n < 10 THEN 1 ELSE 1 + NumDigits(n \div 10)

\* n / d rounded to the nearest integer, ties to the even one (IEEE 754
\* roundTiesToEven), for n >= 0 and d > 0.
RoundHalfEven(n, d) ==
    LET q == n \div d
        r == n % d
    IN  IF 2 * r < d THEN q
        ELSE IF 2 * r > d THEN q + 1
        ELSE IF q % 2 = 0 THEN q ELSE q + 1

\* The decimal m * 10^e with the trailing zeros of m moved into e.
RECURSIVE StripZeros(_, _)
StripZeros(m, e) ==
    IF m # 0 /\ m % 10 = 0 THEN StripZeros(m \div 10, e + 1) ELSE <<m, e>>

\* The first two digits of m (m itself when it has fewer).
RECURSIVE Lead2(_)
Lead2(m) == IF m < 100 THEN m ELSE Lead2(m \div 10)

\* The double nearest to sgn * m * 10^e (m >= 0, m < 10^4).
\*  - at or above 1.8e308 (the largest double is 1.797...e308): Infinity;
\*  - below 1e-318: the multiple of 2^-1074 nearest to it; 10^-324 is
\*    0.202402 units of 2^-1074, so m * 10^e is m * 202402 / 10^(-e - 318)
\*    units; less than half a unit underflows to zero;
\*  - otherwise the decimal itself.
ToDouble(sgn, m, e) ==
    LET n   == StripZeros(m, e)
        mm  == n[1]
        ee  == n[2]
        ord == NumDigits(mm) + ee
    IN  IF mm = 0 THEN Zero
        ELSE IF ord > 309 \/ (ord = 309 /\ Lead2(mm * 10) >= 18)
             THEN Infinity(sgn)
        ELSE IF ord <= -318
             THEN LET k == IF -ee - 318 > 9 THEN 0
                           ELSE RoundHalfEven(mm * 202402, Pow10(-ee - 318))
                  IN  IF k = 0 THEN Zero
                      ELSE [cls |-> "sub", sgn |-> sgn, m |-> k, e |-> 0]
        ELSE [cls |-> "fin", sgn |-> sgn, m |-> mm, e |-> ee]

\* x * c for the positive decimal constant c = cm * 10^ce (ce <= 0), as the
\* double multiplication gives it.
Times(x, cm, ce) ==
    CASE x.cls = "nan" -> NaN
      [] x.cls = "inf" -> x
      [] x.cls = "sub" ->
            LET k == RoundHalfEven(x.m * cm, Pow10(-ce))
            IN  IF k = 0 THEN Zero ELSE [x EXCEPT !.m = k]
      [] OTHER -> ToDouble(x.sgn, x.m * cm, x.e + ce)

\* -1, 0 or 1: the sign of a Number that is not NaN.
Sign(x) == IF x = Zero THEN 0 ELSE x.sgn

\* |a| < |b| for two Numbers that are neither NaN nor zero.
MagLess(a, b) ==
    LET rank(x) == CASE x.cls = "sub" -> 1 [] x.cls = "fin" -> 2 [] OTHER -> 3
        oa == NumDigits(a.m) + a.e
        ob == NumDigits(b.m) + b.e
    IN  IF rank(a) # rank(b) THEN rank(a) < rank(b)
        ELSE CASE a.cls = "inf" -> FALSE
               [] a.cls = "sub" -> a.m < b.m
               [] OTHER ->
                    IF oa # ob THEN oa < ob
                    ELSE IF a.e >= b.e
                         THEN a.m * Pow10(a.e - b.e) < b.m
                         ELSE a.m < b.m * Pow10(b.e - a.e)

\* a < b as JavaScript evaluates it: false when either is NaN.
Less(a, b) ==
    /\ a.cls # "nan"
    /\ b.cls # "nan"
    /\ IF Sign(a) # Sign(b) THEN Sign(a) < Sign(b)
       ELSE CASE Sign(a) = 0 -> FALSE
              [] Sign(a) = 1 -> MagLess(a, b)
              [] OTHER -> MagLess(b, a)

\* a <= b as JavaScript evaluates it: false when either is NaN.
LessEq(a, b) ==
    /\ a.cls # "nan"
    /\ b.cls # "nan"
    /\ (a = b \/ Less(a, b))

(***************************************************************************)
(* parseFloat (ECMAScript): leading white space is skipped, the longest    *)
(* prefix that is a decimal literal is converted, NaN when there is none.  *)
(***************************************************************************)
Digits == <<"0", "1", "2", "3", "4", "5", "6", "7", "8", "9">>

IsDigit(c) == \E i \in 1..10 : Digits[i] = c

DigitVal(c) == (CHOOSE i \in 1..10 : Digits[i] = c) - 1

\* s without its first n characters.
Drop(s, n) == SubSeq(s, n + 1, Len(s))

\* Whether s starts with the characters p.
StartsWith(s, p) == Len(s) >= Len(p) /\ SubSeq(s, 1, Len(p)) = p

RECURSIVE SkipWhiteSpace(_)
SkipWhiteSpace(s) ==
    IF s # <<>> /\ s[1] = " " THEN SkipWhiteSpace(Tail(s)) ELSE s

\* The number of digits s starts with.
RECURSIVE DigitRun(_)
DigitRun(s) ==
    IF s # <<>> /\ IsDigit(s[1]) THEN 1 + DigitRun(Tail(s)) ELSE 0

\* The value of a sequence of digits.
RECURSIVE DigitsValue(_)
DigitsValue(s) ==
    IF s = <<>> THEN 0
    ELSE 10 * DigitsValue(SubSeq(s, 1, Len(s) - 1)) + DigitVal(s[Len(s)])

\* The exponent part s starts with, as <<present, value>>: e or E, an
\* optional sign and at least one digit; an incomplete one is not part of
\* the literal.
ExponentPart(s) ==
    IF s = <<>> \/ s[1] \notin {"e", "E"} THEN <<FALSE, 0>>
    ELSE LET t    == Tail(s)
             sg   == IF t # <<>> /\ t[1] = "-" THEN -1 ELSE 1
             u    == IF t # <<>> /\ t[1] \in {"-", "+"} THEN Tail(t) ELSE t
             n    == DigitRun(u)
         IN  IF n = 0 THEN <<FALSE, 0>>
             ELSE <<TRUE, sg * DigitsValue(SubSeq(u, 1, n))>>

parseFloat(str) ==
    LET s0   == SkipWhiteSpace(str)
        sgn  == IF s0 # <<>> /\ s0[1] = "-" THEN -1 ELSE 1
        s1   == IF s0 # <<>> /\ s0[1] \in {"-", "+"} THEN Tail(s0) ELSE s0
        ni   == DigitRun(s1)
        s2   == Drop(s1, ni)
        dot  == s2 # <<>> /\ s2[1] = "."
        nf   == IF dot THEN DigitRun(Tail(s2)) ELSE 0
        s3   == IF dot THEN Drop(s2, 1 + nf) ELSE s2
        ex   == ExponentPart(s3)
        mant == DigitsValue(SubSeq(s1, 1, ni) \o SubSeq(s2, 2, 1 + nf))
    IN  IF StartsWith(s1, <<"I", "n", "f", "i", "n", "i", "t", "y">>)
        THEN Infinity(sgn)
        ELSE IF ni + nf = 0 THEN NaN
        ELSE ToDouble(sgn, mant, ex[2] - nf)

(***************************************************************************)
(* GoodsManagement: the component's state.                                 *)
(***************************************************************************)
VARIABLES
    goods,          \* useState([]): the catalog, a sequence of records
    loading,        \* useState(false)
    error,          \* useState(''): the message the Alert shows
    exchangeRate,   \* useState(null): a JavaScript value, see below
    formData,       \* useState({...}): the seven fields of the form
    fetchState,     \* the GET of fetchExchangeRate: pending, fulfilled, rejected
    lastSubmit,     \* history: the form the latest handleSubmit was given
    accepted,       \* history: handleSubmit calls given a complete form
    getsIssued      \* history: the GETs fetchExchangeRate has sent

\* SupplyChainAnalysis: its state, and the requests it has in flight.
VARIABLES
    file,                \* useState(null): the selected File
    analysisLoading,     \* useState(false): loading
    analysisError,       \* useState(''): error
    analysis,            \* useState(null)
    monitoring,          \* useState(null)
    analyzeRequests,     \* POSTs to /api/analyze-supply-chain in flight
    monitoringRequests,  \* POSTs to /api/monitor-supply-chain in flight
    analyzeSent,         \* history: the analyze POSTs sent so far
    lastStep,            \* history: the handler step taken last
    lastResponse         \* history: how the latest analyze POST settled

goodsVars == <<goods, loading, error, exchangeRate, formData, fetchState,
               lastSubmit, accepted, getsIssued>>

analysisVars == <<file, analysisLoading, analysisError, analysis, monitoring,
                  analyzeRequests, monitoringRequests, analyzeSent, lastStep,
                  lastResponse>>

\* DataIngestion: its state, and the uploads it has in flight.
VARIABLES
    ingestFile,          \* useState(null): file
    dataType,            \* useState('csv')
    preprocessingSteps,  \* useState({handle_missing, normalize, remove_duplicates})
    ingestLoading,       \* useState(false): loading
    ingestError,         \* useState(''): error
    success,             \* useState('')
    summary,             \* useState(null)
    openError,           \* useState(false)
    openSuccess,         \* useState(false)
    uploads,             \* POSTs to /api/ingest-data in flight
    uploadsSent          \* history: the uploads sent so far

ingestVars == <<ingestFile, dataType, preprocessingSteps, ingestLoading,
                ingestError, success, summary, openError, openSuccess,
                uploads, uploadsSent>>

\* App: its state, and the analyze requests it has in flight.
VARIABLES
    text,          \* useState('')
    appLoading,    \* useState(false): loading
    results,       \* useState(null)
    appError,      \* useState(''): error
    activeTab,     \* useState(0)
    textRequests,  \* POSTs to /api/analyze in flight
    textSent,      \* history: the POSTs to /api/analyze sent so far
    appLast        \* history: the step of App taken last

appVars == <<text, appLoading, results, appError, activeTab, textRequests,
             textSent, appLast>>

\* TimeSeriesAnalysis: its state, and the requests it has in flight.
VARIABLES
    inputData,       \* useState(''): data, the text of the input field
    seriesLoading,   \* useState(false): loading
    seriesError,     \* useState(''): error
    seriesAnalysis,  \* useState(null): analysis
    seriesRequests,  \* POSTs to /api/analyze-timeseries in flight
    seriesSent,      \* history: the POSTs to /api/analyze-timeseries sent
    seriesLast       \* history: the step of TimeSeriesAnalysis taken last

seriesVars == <<inputData, seriesLoading, seriesError, seriesAnalysis,
                seriesRequests, seriesSent, seriesLast>>

\* DataIngestion, the revision with a file preview (DataIngestion.js,
\* lines 382-445): its state, its FileReaders at work and its uploads in
\* flight.
VARIABLES
    revFile,      \* useState(null): file
    revLoading,   \* useState(false): loading
    revError,     \* useState(null): error
    revSuccess,   \* useState(null): success
    preview,      \* useState(null)
    revDataType,  \* useState('csv'): dataType
    revSteps,     \* useState({cleanMissing, normalize, removeDuplicates})
    readers,      \* for each File, the FileReaders reading it
    readsStarted, \* history: the readAsText calls made so far
    revUploads,   \* POSTs to /api/ingest-data in flight
    revSent       \* history: the uploads sent so far

previewVars == <<revFile, revLoading, revError, revSuccess, preview,
                 revDataType, revSteps, readers, readsStarted, revUploads,
                 revSent>>

vars == <<goodsVars, analysisVars, ingestVars, appVars, seriesVars,
          previewVars>>

\* What a handler of one component leaves alone: the other components.
otherThanGoods ==
    <<analysisVars, ingestVars, appVars, seriesVars, previewVars>>

otherThanAnalysis ==
    <<goodsVars, ingestVars, appVars, seriesVars, previewVars>>

otherThanIngest ==
    <<goodsVars, analysisVars, appVars, seriesVars, previewVars>>

otherThanApp ==
    <<goodsVars, analysisVars, ingestVars, seriesVars, previewVars>>

otherThanSeries ==
    <<goodsVars, analysisVars, ingestVars, appVars, previewVars>>

otherThanPreview ==
    <<goodsVars, analysisVars, ingestVars, appVars, seriesVars>>

FieldNames ==
    {"goodsId", "goodsName", "cost", "price", "date", "supplierId",
     "supplierName"}

EmptyForm ==
    [goodsId |-> <<>>, goodsName |-> <<>>, cost |-> <<>>, price |-> <<>>,
     date |-> <<>>, supplierId |-> <<>>, supplierName |-> <<>>]

FillFieldsMessage == "Please fill in all fields"

\* JavaScript values exchangeRate can hold: null, undefined, or a rate
\* table (an object of currency codes and Numbers).
Null == [t |-> "null"]

Undefined == [t |-> "undefined"]

RateTable(usd, eur, gbp, ngn) ==
    [t |-> "object", USD |-> usd, EUR |-> eur, GBP |-> gbp, NGN |-> ngn]

FallbackRates ==
    RateTable(ToDouble(1, 1, 0), ToDouble(1, 85, -2), ToDouble(1, 73, -2),
              ToDouble(1, 460, 0))

\* A table the rate service may answer with.
ServerRates ==
    RateTable(ToDouble(1, 1, 0), ToDouble(1, 92, -2), ToDouble(1, 79, -2),
              ToDouble(1, 1500, 0))

\* response.data of a fulfilled GET: an object with a rates field, an
\* object without one, a body that is not JSON (axios hands the text
\* over), or the JSON value null.  `rates` is what reading .rates gives.
ResponseData ==
    { [t |-> "object", rates |-> ServerRates],
      [t |-> "object", rates |-> Undefined],
      [t |-> "string", rates |-> Undefined],
      [t |-> "null", rates |-> Undefined] }

\* Reading a property of null or undefined throws a TypeError.
ReadThrows(data) == data.t \in {"null", "undefined"}

(***************************************************************************)
(* The inputs the handlers are given.                                      *)
(***************************************************************************)
\* What Math.random() returns, in hundredths.
RandomDraws == {10, 30, 50}

\* The texts typed into a field.
TypedValues(name) ==
    CASE name = "price" -> { <<>>, <<"1", "0">> }
      [] name = "cost" -> { <<>>, <<"5">> }
      [] name = "date" -> { <<>>, <<"2", "0", "2", "4">> }
      [] name \in {"goodsId", "supplierId"} -> { <<>>, <<"G", "1">> }
      [] OTHER -> { <<>>, <<"A", "c", "m", "e">> }

\* The texts typed into the price field when the arithmetic is examined.
PriceTexts ==
    { <<>>,
      <<"1", "0">>,
      <<"2", ".", "5">>,
      <<"0">>,
      <<"-", "5">>,
      <<"a", "b", "c">>,
      <<"1", "0", "a", "b", "c">>,
      <<" ", "7">>,
      <<"1", "e", "-", "3", "2", "3">>,
      <<"8", "e", "-", "3", "2", "3">>,
      <<"8", ".", "4", "e", "-", "3", "2", "3">>,
      <<"1", "e", "9", "9", "9">>,
      <<"1", ".", "7", "5", "e", "3", "0", "8">> }

\* The File objects the file input can hand over.
Files == { [t |-> "file", name |-> "a.csv"], [t |-> "file", name |-> "b.csv"] }

\* SupplyChainAnalysis after its first render: nothing selected, nothing
\* sent.
AnalysisMount ==
    /\ file = Null
    /\ analysisLoading = FALSE
    /\ analysisError = ""
    /\ analysis = Null
    /\ monitoring = Null
    /\ analyzeRequests = [f \in Files |-> 0]
    /\ monitoringRequests = 0
    /\ analyzeSent = 0
    /\ lastStep = "mount"
    /\ lastResponse = [t |-> "none"]

\* DataIngestion after its first render.
IngestMount ==
    /\ ingestFile = Null
    /\ dataType = "csv"
    /\ preprocessingSteps =
          [handle_missing |-> Undefined, normalize |-> Undefined,
           remove_duplicates |-> FALSE]
    /\ ingestLoading = FALSE
    /\ ingestError = ""
    /\ success = ""
    /\ summary = Null
    /\ openError = FALSE
    /\ openSuccess = FALSE
    /\ uploads = 0
    /\ uploadsSent = 0

\* App after its first render.
AppMount ==
    /\ text = <<>>
    /\ appLoading = FALSE
    /\ results = Null
    /\ appError = ""
    /\ activeTab = 0
    /\ textRequests = 0
    /\ textSent = 0
    /\ appLast = [step |-> "mount"]

\* TimeSeriesAnalysis after its first render.
SeriesMount ==
    /\ inputData = <<>>
    /\ seriesLoading = FALSE
    /\ seriesError = ""
    /\ seriesAnalysis = Null
    /\ seriesRequests = 0
    /\ seriesSent = 0
    /\ seriesLast = [step |-> "mount"]

\* The preview revision of DataIngestion after its first render.
PreviewMount ==
    /\ revFile = Null
    /\ revLoading = FALSE
    /\ revError = Null
    /\ revSuccess = Null
    /\ preview = Null
    /\ revDataType = "csv"
    /\ revSteps =
          [cleanMissing |-> TRUE, normalize |-> TRUE, removeDuplicates |-> TRUE]
    /\ readers = [f \in Files |-> 0]
    /\ readsStarted = 0
    /\ revUploads = 0
    /\ revSent = 0

(***************************************************************************)
(* Mount: the state after the first render, the effect having called       *)
(* fetchExchangeRate, whose GET is in flight.                              *)
(***************************************************************************)
Init ==
    /\ goods = <<>>
    /\ loading = FALSE
    /\ error = ""
    /\ exchangeRate = Null
    /\ formData = EmptyForm
    /\ fetchState = "pending"
    /\ lastSubmit = "none"
    /\ accepted = 0
    /\ getsIssued = 1
    /\ AnalysisMount
    /\ IngestMount
    /\ AppMount
    /\ SeriesMount
    /\ PreviewMount

(***************************************************************************)
(* fetchExchangeRate, from the await on: the GET is fulfilled with         *)
(* response.data = data, or rejected.                                      *)
(***************************************************************************)
\* A catch block that also reports the failure to the user.
FetchCatchReporting ==
    /\ exchangeRate' = FallbackRates
    /\ error' = "Failed to fetch exchange rate"
    /\ UNCHANGED <<goods, loading, formData, getsIssued>>

\* A catch block that calls fetchExchangeRate again.
FetchCatchRetrying ==
    /\ exchangeRate' = FallbackRates
    /\ getsIssued' = getsIssued + 1
    /\ UNCHANGED <<goods, loading, error, formData>>

\* The catch block: the fallback table is stored, nothing is sent.
FetchCatch ==
    /\ exchangeRate' = FallbackRates
    /\ UNCHANGED <<goods, loading, error, formData, getsIssued>>

FetchFulfilled(data) ==
    /\ fetchState = "pending"
    /\ fetchState' = "fulfilled"
    /\ UNCHANGED <<lastSubmit, accepted>>
    /\ UNCHANGED otherThanGoods
    /\ IF ReadThrows(data)
       THEN FetchCatch
       ELSE /\ exchangeRate' = data.rates
            /\ UNCHANGED <<goods, loading, error, formData, getsIssued>>

\* axios rejects on a network error and on a status outside 2xx.
FetchRejected ==
    /\ fetchState = "pending"
    /\ fetchState' = "rejected"
    /\ UNCHANGED <<lastSubmit, accepted>>
    /\ UNCHANGED otherThanGoods
    /\ FetchCatch

(***************************************************************************)
(* handleInputChange                                                       *)
(***************************************************************************)
handleInputChange(name, value) ==
    /\ formData' = [formData EXCEPT ![name] = value]
    /\ UNCHANGED <<goods, loading, error, exchangeRate, fetchState,
                   lastSubmit, accepted, getsIssued>>
    /\ UNCHANGED otherThanGoods

(***************************************************************************)
(* handleSubmit                                                            *)
(***************************************************************************)
\* !formData.x: the empty string is the one falsy string.
Falsy(str) == str = <<>>

\* The validation with the last field forgotten.
AnyFieldMissingButLast(form) ==
    \/ Falsy(form.goodsId)
    \/ Falsy(form.goodsName)
    \/ Falsy(form.cost)
    \/ Falsy(form.price)
    \/ Falsy(form.date)
    \/ Falsy(form.supplierId)

\* The condition of the validation's if.
AnyFieldMissing(form) ==
    \/ Falsy(form.goodsId)
    \/ Falsy(form.goodsName)
    \/ Falsy(form.cost)
    \/ Falsy(form.price)
    \/ Falsy(form.date)
    \/ Falsy(form.supplierId)
    \/ Falsy(form.supplierName)

Horizons == {30, 50, 60}

\* The projection with its two rates exchanged.
PredictionsRatesSwapped(price) ==
    [up   |-> [h \in Horizons |-> Times(parseFloat(price), 97, -2)],
     down |-> [h \in Horizons |-> Times(parseFloat(price), 103, -2)]]

\* The projection compounding the rate once for every 30 days begun.
RECURSIVE Compound(_, _, _)
Compound(x, cm, n) == IF n = 0 THEN x ELSE Compound(Times(x, cm, -2), cm, n - 1)

PredictionsByHorizon(price) ==
    [up   |-> [h \in Horizons |->
                  Compound(parseFloat(price), 103, (h + 29) \div 30)],
     down |-> [h \in Horizons |->
                  Compound(parseFloat(price), 97, (h + 29) \div 30)]]

\* The projection quoted in euros once the fallback table is in place.
PredictionsConverted(price) ==
    IF exchangeRate = FallbackRates
    THEN [up   |-> [h \in Horizons |->
                       Times(Times(parseFloat(price), 103, -2), 85, -2)],
          down |-> [h \in Horizons |->
                       Times(Times(parseFloat(price), 97, -2), 85, -2)]]
    ELSE [up   |-> [h \in Horizons |-> Times(parseFloat(price), 103, -2)],
          down |-> [h \in Horizons |-> Times(parseFloat(price), 97, -2)]]

\* The predictions object of a new record.
Predictions(price) ==
    [up   |-> [h \in Horizons |-> Times(parseFloat(price), 103, -2)],
     down |-> [h \in Horizons |-> Times(parseFloat(price), 97, -2)]]

\* The classification with the risk read off the quality draw.
SupplierPerformanceCoupled(r1, r2, r3) ==
    [onTimeDelivery |-> IF r1 > 30 THEN "Good" ELSE "Poor",
     qualityScore   |-> IF r2 > 20 THEN "High" ELSE "Low",
     riskLevel      |-> IF r2 > 20 THEN "Low" ELSE "High"]

\* The supplierPerformance object, from three calls of Math.random().
SupplierPerformance(r1, r2, r3) ==
    [onTimeDelivery |-> IF r1 > 30 THEN "Good" ELSE "Poor",
     qualityScore   |-> IF r2 > 20 THEN "High" ELSE "Low",
     riskLevel      |-> IF r3 > 40 THEN "Low" ELSE "High"]

\* Date.now() at a submit: the calls are given the successive instants
\* 1, 2, ...; there is one call for each record appended.
DateNow(prev) == Len(prev) + 1

\* newGoods with currentPrice read from the cost field.
NewGoodsPriceFromCost(form, now, r1, r2, r3) ==
    [goodsId |-> form.goodsId, goodsName |-> form.goodsName,
     cost |-> form.cost, price |-> form.price, date |-> form.date,
     supplierId |-> form.supplierId, supplierName |-> form.supplierName,
     id |-> now,
     currentPrice |-> parseFloat(form.cost),
     predictions |-> Predictions(form.price),
     supplierPerformance |-> SupplierPerformance(r1, r2, r3)]

\* newGoods: the form's fields and the computed ones.
NewGoods(form, now, r1, r2, r3) ==
    [goodsId |-> form.goodsId, goodsName |-> form.goodsName,
     cost |-> form.cost, price |-> form.price, date |-> form.date,
     supplierId |-> form.supplierId, supplierName |-> form.supplierName,
     id |-> now,
     currentPrice |-> parseFloat(form.price),
     predictions |-> Predictions(form.price),
     supplierPerformance |-> SupplierPerformance(r1, r2, r3)]

\* The new record put first: [newGoods, ...prev].
PrependGoods(prev, newGoods) == <<newGoods>> \o prev

\* A catalog keyed by goodsId: a record whose goodsId is taken is dropped.
AppendUnlessDuplicate(prev, newGoods) ==
    IF \E i \in 1..Len(prev) : prev[i].goodsId = newGoods.goodsId
    THEN prev
    ELSE Append(prev, newGoods)

\* setGoods(prev => [...prev, newGoods])
AppendGoods(prev, newGoods) == Append(prev, newGoods)

\* The handler without its setError(''): a message stays until replaced.
SubmitErrorNotCleared(form) ==
    IF AnyFieldMissing(form) THEN FillFieldsMessage ELSE error

\* The error message once the handler has run: setError('') first, then
\* the validation's setError.
SubmitError(form) == IF AnyFieldMissing(form) THEN FillFieldsMessage ELSE ""

\* The handler with the setLoading(false) of the validation's return left
\* out.
SubmitLoadingStuck(form) == AnyFieldMissing(form)

\* loading once the handler has run: setLoading(true) first, then the
\* setLoading(false) of the path taken.
SubmitLoading(form) == IF AnyFieldMissing(form) THEN FALSE ELSE FALSE

\* The whole handler; React applies its state updates together when it
\* returns.  Date.now() and the three Math.random() calls are made on the
\* path past the validation only.  The history variables are written from
\* the form as it was given, not from the branch taken.
handleSubmit ==
    /\ lastSubmit' = IF \E f \in FieldNames : formData[f] = <<>>
                     THEN "incomplete" ELSE "complete"
    /\ accepted' = IF \E f \in FieldNames : formData[f] = <<>>
                   THEN accepted ELSE accepted + 1
    /\ error' = SubmitError(formData)
    /\ loading' = SubmitLoading(formData)
    /\ UNCHANGED <<exchangeRate, fetchState, getsIssued>>
    /\ UNCHANGED otherThanGoods
    /\ IF AnyFieldMissing(formData)
       THEN UNCHANGED <<goods, formData>>
       ELSE /\ Len(goods) < MaxGoods
            /\ \E r1, r2, r3 \in RandomDraws :
                  goods' = AppendGoods(goods,
                                       NewGoods(formData, DateNow(goods),
                                                r1, r2, r3))
            /\ formData' = EmptyForm

(***************************************************************************)
(* The component: every handler, with every input.                         *)
(***************************************************************************)
Next ==
    \/ \E data \in ResponseData : FetchFulfilled(data)
    \/ FetchRejected
    \/ \E name \in FieldNames : \E value \in TypedValues(name) :
          handleInputChange(name, value)
    \/ handleSubmit

Spec == Init /\ [][Next]_vars

(***************************************************************************)
(* The price arithmetic: the form filled in but for the price, any of      *)
(* PriceTexts typed into it, and submitted.                                *)
(***************************************************************************)
FilledForm ==
    [goodsId |-> <<"G", "1">>, goodsName |-> <<"A", "c", "m", "e">>,
     cost |-> <<"5">>, price |-> <<>>, date |-> <<"2", "0", "2", "4">>,
     supplierId |-> <<"G", "1">>, supplierName |-> <<"A", "c", "m", "e">>]

\* A record an earlier submit of the filled form, price 10, has appended.
EarlierRecord ==
    NewGoods([FilledForm EXCEPT !.price = <<"1", "0">>], 1, 50, 50, 50)

PriceInit ==
    /\ exchangeRate = Null
    /\ goods \in { <<>>, <<EarlierRecord>> }
    /\ loading = FALSE
    /\ error = ""
    /\ formData = FilledForm
    /\ fetchState = "pending"
    /\ lastSubmit = IF goods = <<>> THEN "none" ELSE "complete"
    /\ accepted = Len(goods)
    /\ getsIssued = 1
    /\ AnalysisMount
    /\ IngestMount
    /\ AppMount
    /\ SeriesMount
    /\ PreviewMount

PriceNext ==
    \/ \E value \in PriceTexts : handleInputChange("price", value)
    \/ handleSubmit

PriceSpec == PriceInit /\ [][PriceNext]_vars

(***************************************************************************)
(* The record's dependence on the form: the form filled in, other texts    *)
(* typed into its goodsId, cost and price, and submitted, on an empty      *)
(* catalog or after an earlier record, the fetch settling at any moment.   *)
(***************************************************************************)
FieldTexts(name) ==
    CASE name = "goodsId" -> { <<"G", "1">>, <<"G", "2">> }
      [] name = "cost" -> { <<"5">>, <<"7">> }
      [] name = "price" -> { <<"1", "0">>, <<"2", ".", "5">>, <<"a", "b", "c">> }

FieldsInit == PriceInit

FieldsNext ==
    \/ \E data \in ResponseData : FetchFulfilled(data)
    \/ FetchRejected
    \/ \E name \in {"goodsId", "cost", "price"} :
          \E value \in FieldTexts(name) : handleInputChange(name, value)
    \/ handleSubmit

FieldsSpec == FieldsInit /\ [][FieldsNext]_vars

(***************************************************************************)
(* SupplyChainAnalysis.                                                    *)
(***************************************************************************)
SelectFileMessage == "Please select a file first"

AnalyzeFailedMessage == "Error analyzing data"

MonitoringFailedMessage == "Error starting monitoring"

\* A JavaScript string value.
Str(s) == [t |-> "string", s |-> s]

\* The test response.data.error === true: no string passes it.
StrictlyTrue(v) == v.t = "boolean"

\* Truthiness of a value that is undefined or a string.
Truthy(v) == v.t = "string" /\ v.s # ""

\* response.data of a 2xx answer to the upload of file f: the result for
\* that file, a body with an error field, a result whose error field is
\* the empty string, or the JSON value null.
AnalyzeResponseData(f) ==
    { [t |-> "object", of |-> f.name, error |-> Undefined],
      [t |-> "object", of |-> f.name, error |-> Str("Unsupported file format")],
      [t |-> "object", of |-> f.name, error |-> Str("")],
      Null }

\* err.response?.data?.error of a rejected upload: the message of a JSON
\* error body, or undefined (no response, or a body without the field).
RejectionErrors == { Str("No file provided"), Undefined }

\* response.data of a 2xx answer to the monitoring request.
MonitoringResponseData == { [t |-> "object", status |-> "monitoring"], Null }

\* event.target.files[0]: a File, or undefined when the dialog is
\* cancelled.
handleFileChange(selectedFile) ==
    /\ lastStep' = "handleFileChange"
    /\ UNCHANGED <<analysisLoading, analyzeRequests, monitoringRequests,
                   analyzeSent, lastResponse>>
    /\ UNCHANGED otherThanAnalysis
    /\ IF selectedFile \in Files
       THEN /\ file' = selectedFile
            /\ analysisError' = ""
            /\ analysis' = Null
            /\ monitoring' = Null
       ELSE UNCHANGED <<file, analysisError, analysis, monitoring>>

\* handleAnalyze up to its await: the file check, the four resets and the
\* POST carrying the file selected at the call.
handleAnalyze ==
    /\ lastStep' = "handleAnalyze"
    /\ UNCHANGED <<monitoringRequests, lastResponse>>
    /\ UNCHANGED otherThanAnalysis
    /\ IF file = Null
       THEN /\ analysisError' = SelectFileMessage
            /\ UNCHANGED <<file, analysisLoading, analysis, monitoring,
                           analyzeRequests, analyzeSent>>
       ELSE /\ analyzeSent < MaxAnalyze
            /\ analysisLoading' = TRUE
            /\ analysisError' = ""
            /\ analysis' = Null
            /\ monitoring' = Null
            /\ analyzeRequests' = [analyzeRequests EXCEPT ![file] = @ + 1]
            /\ analyzeSent' = analyzeSent + 1
            /\ UNCHANGED file

\* The catch block's message.
AnalyzeCatchError(errField) ==
    IF Truthy(errField) THEN errField.s ELSE AnalyzeFailedMessage

\* startMonitoring up to its await: the POST is sent.
StartMonitoring == monitoringRequests' = monitoringRequests + 1

\* A handler that awaits startMonitoring() inside its try: loading stays
\* set while a monitoring request is in flight.
AnalyzeFinallyAfterMonitoring == analysisLoading' = (monitoringRequests' > 0)

\* The finally block.
AnalyzeFinally == analysisLoading' = FALSE

\* handleAnalyze from its await on, the POST for file f fulfilled with
\* response.data = data; reading .error of null throws into the catch.
\* The finally block ends every path.
AnalyzeFulfilled(f, data) ==
    /\ analyzeRequests[f] > 0
    /\ analyzeRequests' = [analyzeRequests EXCEPT ![f] = @ - 1]
    /\ lastStep' = "analyzeSettled"
    /\ lastResponse' = data
    /\ UNCHANGED <<file, monitoring, analyzeSent>>
    /\ UNCHANGED otherThanAnalysis
    /\ IF ReadThrows(data)
       THEN /\ analysisError' = AnalyzeCatchError(Undefined)
            /\ UNCHANGED <<analysis, monitoringRequests>>
       ELSE IF Truthy(data.error)
            THEN /\ analysisError' = data.error.s
                 /\ UNCHANGED <<analysis, monitoringRequests>>
            ELSE /\ analysis' = data
                 /\ StartMonitoring
                 /\ UNCHANGED analysisError
    /\ AnalyzeFinally

\* The POST for file f rejected: a network error or a status outside 2xx.
AnalyzeRejected(f, errField) ==
    /\ analyzeRequests[f] > 0
    /\ analyzeRequests' = [analyzeRequests EXCEPT ![f] = @ - 1]
    /\ lastStep' = "analyzeSettled"
    /\ lastResponse' = [t |-> "rejected"]
    /\ UNCHANGED <<file, analysis, monitoring, monitoringRequests, analyzeSent>>
    /\ UNCHANGED otherThanAnalysis
    /\ analysisError' = AnalyzeCatchError(errField)
    /\ AnalyzeFinally

\* startMonitoring from its await on.
MonitoringFulfilled(data) ==
    /\ monitoringRequests > 0
    /\ monitoringRequests' = monitoringRequests - 1
    /\ lastStep' = "monitoringSettled"
    /\ monitoring' = data
    /\ UNCHANGED <<file, analysisLoading, analysisError, analysis,
                   analyzeRequests, analyzeSent, lastResponse>>
    /\ UNCHANGED otherThanAnalysis

MonitoringRejected ==
    /\ monitoringRequests > 0
    /\ monitoringRequests' = monitoringRequests - 1
    /\ lastStep' = "monitoringSettled"
    /\ analysisError' = MonitoringFailedMessage
    /\ UNCHANGED <<file, analysisLoading, analysis, monitoring,
                   analyzeRequests, analyzeSent, lastResponse>>
    /\ UNCHANGED otherThanAnalysis

\* The Analyze button: disabled={loading || !file}.
AnalyzeDisabled == analysisLoading \/ file = Null

AnalyzeClick == ~AnalyzeDisabled /\ handleAnalyze

\* The responses that can arrive.
Arrivals ==
    \/ \E f \in Files : \E data \in AnalyzeResponseData(f) :
          AnalyzeFulfilled(f, data)
    \/ \E f \in Files : \E errField \in RejectionErrors :
          AnalyzeRejected(f, errField)
    \/ \E data \in MonitoringResponseData : MonitoringFulfilled(data)
    \/ MonitoringRejected

\* The component as its page drives it: the handlers run when their
\* controls let them.
AnalysisNext ==
    \/ \E selectedFile \in Files \cup {Undefined} :
          handleFileChange(selectedFile)
    \/ AnalyzeClick
    \/ Arrivals

AnalysisSpec == Init /\ [][AnalysisNext]_vars

\* The handlers called in any state, as a test calling them directly does.
HandlerNext ==
    \/ \E selectedFile \in Files \cup {Undefined} :
          handleFileChange(selectedFile)
    \/ handleAnalyze
    \/ Arrivals

HandlerSpec == Init /\ [][HandlerNext]_vars

(***************************************************************************)
(* DataIngestion (DataIngestion.js, lines 36-350).                         *)
(***************************************************************************)
UploadFailedMessage == "Error processing data"

UploadedMessage == "Data processed successfully!"

\* response.data of a 2xx answer to the upload: a body with a summary, a
\* body without one, or the JSON value null.
UploadResponseData ==
    { [t |-> "object", summary |-> [t |-> "object", rows |-> "120"]],
      [t |-> "object", summary |-> Undefined],
      Null }

\* The names the three preprocessing checkboxes carry, and one no case of
\* the switch matches.
CheckboxNames == {"cleanMissing", "normalize", "removeDuplicates", "other"}

ingestFileChange(selectedFile) ==
    /\ UNCHANGED <<dataType, preprocessingSteps, ingestLoading, openError,
                   openSuccess, uploads, uploadsSent>>
    /\ UNCHANGED otherThanIngest
    /\ IF selectedFile \in Files
       THEN /\ ingestFile' = selectedFile
            /\ ingestError' = ""
            /\ success' = ""
            /\ summary' = Null
       ELSE UNCHANGED <<ingestFile, ingestError, success, summary>>

handlePreprocessingChange(name, checked) ==
    /\ preprocessingSteps' =
          CASE name = "cleanMissing" ->
                 [preprocessingSteps EXCEPT
                     !.handle_missing = IF checked
                                        THEN [t |-> "object", strategy |-> "mean"]
                                        ELSE Undefined]
            [] name = "normalize" ->
                 [preprocessingSteps EXCEPT
                     !.normalize = IF checked
                                   THEN [t |-> "object", method |-> "minmax"]
                                   ELSE Undefined]
            [] name = "removeDuplicates" ->
                 [preprocessingSteps EXCEPT !.remove_duplicates = checked]
            [] OTHER -> preprocessingSteps
    /\ UNCHANGED <<ingestFile, dataType, ingestLoading, ingestError, success,
                   summary, openError, openSuccess, uploads, uploadsSent>>
    /\ UNCHANGED otherThanIngest

handleDataTypeChange(value) ==
    /\ dataType' = value
    /\ UNCHANGED <<ingestFile, preprocessingSteps, ingestLoading, ingestError,
                   success, summary, openError, openSuccess, uploads,
                   uploadsSent>>
    /\ UNCHANGED otherThanIngest

handleCloseError ==
    /\ openError' = FALSE
    /\ UNCHANGED <<ingestFile, dataType, preprocessingSteps, ingestLoading,
                   ingestError, success, summary, openSuccess, uploads,
                   uploadsSent>>
    /\ UNCHANGED otherThanIngest

handleCloseSuccess ==
    /\ openSuccess' = FALSE
    /\ UNCHANGED <<ingestFile, dataType, preprocessingSteps, ingestLoading,
                   ingestError, success, summary, openError, uploads,
                   uploadsSent>>
    /\ UNCHANGED otherThanIngest

\* handleUpload up to its await.
handleUpload ==
    /\ UNCHANGED <<ingestFile, dataType, preprocessingSteps, openSuccess>>
    /\ UNCHANGED otherThanIngest
    /\ IF ingestFile = Null
       THEN /\ ingestError' = SelectFileMessage
            /\ openError' = TRUE
            /\ UNCHANGED <<ingestLoading, success, summary, uploads,
                           uploadsSent>>
       ELSE /\ uploadsSent < MaxUploads
            /\ ingestLoading' = TRUE
            /\ ingestError' = ""
            /\ success' = ""
            /\ summary' = Null
            /\ uploads' = uploads + 1
            /\ uploadsSent' = uploadsSent + 1
            /\ UNCHANGED openError

\* The catch block's message.
UploadCatchError(errField) ==
    IF Truthy(errField) THEN errField.s ELSE UploadFailedMessage

\* handleUpload from its await on, the POST fulfilled with response.data
\* = data: the two success updates are made before .summary is read, and
\* reading it of null throws into the catch.
UploadFulfilled(data) ==
    /\ uploads > 0
    /\ uploads' = uploads - 1
    /\ success' = UploadedMessage
    /\ openSuccess' = TRUE
    /\ ingestLoading' = FALSE
    /\ UNCHANGED <<ingestFile, dataType, preprocessingSteps, uploadsSent>>
    /\ UNCHANGED otherThanIngest
    /\ IF ReadThrows(data)
       THEN /\ ingestError' = UploadCatchError(Undefined)
            /\ openError' = TRUE
            /\ UNCHANGED summary
       ELSE /\ summary' = data.summary
            /\ UNCHANGED <<ingestError, openError>>

UploadRejected(errField) ==
    /\ uploads > 0
    /\ uploads' = uploads - 1
    /\ ingestError' = UploadCatchError(errField)
    /\ openError' = TRUE
    /\ ingestLoading' = FALSE
    /\ UNCHANGED <<ingestFile, dataType, preprocessingSteps, success, summary,
                   openSuccess, uploadsSent>>
    /\ UNCHANGED otherThanIngest

\* The upload button: disabled={loading || !file}.
UploadDisabled == ingestLoading \/ ingestFile = Null

UploadClick == ~UploadDisabled /\ handleUpload

\* The component as its page drives it.
IngestNext ==
    \/ \E selectedFile \in Files \cup {Undefined} :
          ingestFileChange(selectedFile)
    \/ \E name \in CheckboxNames : \E checked \in BOOLEAN :
          handlePreprocessingChange(name, checked)
    \/ \E value \in {"csv", "json"} : handleDataTypeChange(value)
    \/ handleCloseError
    \/ handleCloseSuccess
    \/ UploadClick
    \/ \E data \in UploadResponseData : UploadFulfilled(data)
    \/ \E errField \in RejectionErrors : UploadRejected(errField)

IngestSpec == Init /\ [][IngestNext]_vars

(***************************************************************************)
(* App (App.js, lines 46-170): the text analysis.                          *)
(***************************************************************************)
EnterTextMessage == "Please enter some text to analyze"

TimedOutMessage == "Request timed out. Please try again."

NetworkErrorMessage ==
    "Network error: Please make sure the backend server is running at http://localhost:5000"

AnalyzingTextPrefix == "Error analyzing text: "

\* String.prototype.trim: white space is taken off both ends.
WhiteSpace == {" ", "\t", "\n"}

RECURSIVE TrimStart(_)
TrimStart(str) ==
    IF str # <<>> /\ Head(str) \in WhiteSpace THEN TrimStart(Tail(str)) ELSE str

RECURSIVE TrimEnd(_)
TrimEnd(str) ==
    IF str # <<>> /\ str[Len(str)] \in WhiteSpace
    THEN TrimEnd(SubSeq(str, 1, Len(str) - 1))
    ELSE str

Trim(str) == TrimEnd(TrimStart(str))

\* The texts typed into the text field.
Texts ==
    { <<>>, <<" ">>, <<" ", "\n", "\t">>, <<"o", "k">>, <<" ", "o", "k", " ">> }

\* response.data of a 2xx answer to the analysis.
TextResponseData == { [t |-> "object", statistics |-> "mean"], Null }

\* What axios rejects with: err.code, err.message and err.response, which
\* is undefined or carries the body's error field (data.error read through
\* ?., so a body of null gives undefined too).
TextErrors ==
    [code : {"ECONNABORTED", "ERR_BAD_RESPONSE"},
     message : {"Request failed with status code 500"},
     response : {Undefined}
                \cup [t : {"object"},
                      error : {Undefined, Str(""), Str("Model not loaded")}]]

\* The classification with the missing-response test made first.
AnalyzeTextErrorResponseFirst(err) ==
    IF err.response = Undefined
    THEN NetworkErrorMessage
    ELSE IF err.code = "ECONNABORTED"
         THEN TimedOutMessage
         ELSE AnalyzingTextPrefix
                 \o (IF Truthy(err.response.error)
                     THEN err.response.error.s ELSE err.message)

\* The message the catch block sets.
AnalyzeTextError(err) ==
    IF err.code = "ECONNABORTED"
    THEN TimedOutMessage
    ELSE IF err.response = Undefined
         THEN NetworkErrorMessage
         ELSE AnalyzingTextPrefix
                 \o (IF Truthy(err.response.error)
                     THEN err.response.error.s ELSE err.message)

setText(value) ==
    /\ text' = value
    /\ appLast' = [step |-> "setText"]
    /\ UNCHANGED <<appLoading, results, appError, activeTab, textRequests,
                   textSent>>
    /\ UNCHANGED otherThanApp

handleTabChange(newValue) ==
    /\ activeTab' = newValue
    /\ appLast' = [step |-> "handleTabChange"]
    /\ UNCHANGED <<text, appLoading, results, appError, textRequests, textSent>>
    /\ UNCHANGED otherThanApp

\* analyzeText up to its await.
analyzeText ==
    /\ appLast' = [step |-> "analyzeText"]
    /\ UNCHANGED <<text, activeTab>>
    /\ UNCHANGED otherThanApp
    /\ IF Trim(text) = <<>>
       THEN /\ appError' = EnterTextMessage
            /\ UNCHANGED <<appLoading, results, textRequests, textSent>>
       ELSE /\ textSent < MaxTextRequests
            /\ appLoading' = TRUE
            /\ appError' = ""
            /\ results' = Null
            /\ textRequests' = textRequests + 1
            /\ textSent' = textSent + 1

\* analyzeText from its await on.
TextFulfilled(data) ==
    /\ textRequests > 0
    /\ textRequests' = textRequests - 1
    /\ appLast' = [step |-> "fulfilled"]
    /\ results' = data
    /\ appLoading' = FALSE
    /\ UNCHANGED <<text, appError, activeTab, textSent>>
    /\ UNCHANGED otherThanApp

TextRejected(err) ==
    /\ textRequests > 0
    /\ textRequests' = textRequests - 1
    /\ appLast' = [step |-> "rejected", err |-> err]
    /\ appError' = AnalyzeTextError(err)
    /\ appLoading' = FALSE
    /\ UNCHANGED <<text, results, activeTab, textSent>>
    /\ UNCHANGED otherThanApp

\* The Text Analysis panel is rendered on tab 1 ({activeTab === 1 && ...});
\* its button carries disabled={loading}.
AnalyzeTextClick == activeTab = 1 /\ ~appLoading /\ analyzeText

TextTyped == activeTab = 1 /\ \E value \in Texts : setText(value)

AppNext ==
    \/ \E newValue \in {0, 1, 2} : handleTabChange(newValue)
    \/ TextTyped
    \/ AnalyzeTextClick
    \/ \E data \in TextResponseData : TextFulfilled(data)
    \/ \E err \in TextErrors : TextRejected(err)

AppSpec == Init /\ [][AppNext]_vars

(***************************************************************************)
(* TimeSeriesAnalysis (TimeSeriesAnalysis.js, lines 37-56).                *)
(***************************************************************************)
SeriesFailedMessage == "Error analyzing data"

\* JSON.parse, as far as whether it throws: the grammar of JSON values
\* built from integers, null and arrays, white space between the tokens.
\* (Fractions, exponents, strings and objects are not recognised; the
\* texts typed below use none.)
JsonFail == [ok |-> FALSE, rest |-> <<>>]

RECURSIVE JsonSkip(_)
JsonSkip(str) ==
    IF str # <<>> /\ Head(str) \in {" ", "\t", "\n", "\r"}
    THEN JsonSkip(Tail(str))
    ELSE str

\* -? (0 | [1-9][0-9]*)
JsonNumber(str) ==
    LET t == IF str # <<>> /\ Head(str) = "-" THEN Tail(str) ELSE str
    IN  IF t = <<>> \/ ~IsDigit(Head(t))
        THEN JsonFail
        ELSE IF Head(t) = "0"
             THEN [ok |-> TRUE, rest |-> Tail(t)]
             ELSE [ok |-> TRUE, rest |-> Drop(t, DigitRun(t))]

RECURSIVE JsonValue(_)
RECURSIVE JsonElements(_)
\* A value at the start of str: what follows it, or failure.
JsonValue(str) ==
    LET t == JsonSkip(str)
    IN  IF t = <<>>
        THEN JsonFail
        ELSE IF Head(t) = "["
             THEN LET u == JsonSkip(Tail(t))
                  IN  IF u # <<>> /\ Head(u) = "]"
                      THEN [ok |-> TRUE, rest |-> Tail(u)]
                      ELSE JsonElements(u)
             ELSE IF StartsWith(t, <<"n", "u", "l", "l">>)
                  THEN [ok |-> TRUE, rest |-> Drop(t, 4)]
                  ELSE JsonNumber(t)

\* The elements of an array, after its [ or a comma, up to its ].
JsonElements(str) ==
    LET v == JsonValue(str)
    IN  IF ~v.ok
        THEN JsonFail
        ELSE LET r == JsonSkip(v.rest)
             IN  IF r = <<>>
                 THEN JsonFail
                 ELSE IF Head(r) = ","
                      THEN JsonElements(Tail(r))
                      ELSE IF Head(r) = "]"
                           THEN [ok |-> TRUE, rest |-> Tail(r)]
                           ELSE JsonFail

\* Passing the text on unparsed: only the empty text is refused.
NonEmptyText(str) == str # <<>>

\* JSON.parse(str) returns rather than throws.
ValidJSON(str) ==
    LET v == JsonValue(str) IN v.ok /\ JsonSkip(v.rest) = <<>>

\* The texts typed into the data field.
SeriesTexts ==
    { <<>>,
      <<"[", "1", ",", "2", "]">>,
      <<" ", "[", " ", "1", " ", ",", " ", "2", "0", " ", "]", " ">>,
      <<"[", "[", "1", "]", ",", "[", "]", ",", "n", "u", "l", "l", "]">>,
      <<"7">>,
      <<"[", "1", ",">>,
      <<"[", "0", "1", "]">>,
      <<"[", "1", ",", "2", "]", "x">>,
      <<"a", "b", "c">> }

\* response.data of a 2xx answer.
SeriesResponseData ==
    { [t |-> "object", bottlenecks |-> "first"],
      [t |-> "object", bottlenecks |-> "second"],
      Null }

\* err.response?.data?.error of a rejected request.
SeriesRejectionErrors == { Str("Invalid data format"), Str(""), Undefined }

\* The catch block's message.
SeriesCatchError(errField) ==
    IF Truthy(errField) THEN errField.s ELSE SeriesFailedMessage

setData(value) ==
    /\ inputData' = value
    /\ seriesLast' = [step |-> "setData"]
    /\ UNCHANGED <<seriesLoading, seriesError, seriesAnalysis, seriesRequests,
                   seriesSent>>
    /\ UNCHANGED otherThanSeries

\* handleAnalyze up to its await, or, JSON.parse throwing a SyntaxError
\* (which has no response), through its catch and finally.
seriesAnalyze ==
    /\ seriesLast' = [step |-> "handleAnalyze"]
    /\ UNCHANGED <<inputData, seriesAnalysis>>
    /\ UNCHANGED otherThanSeries
    /\ IF ValidJSON(inputData)
       THEN /\ seriesSent < MaxSeriesRequests
            /\ seriesLoading' = TRUE
            /\ seriesError' = ""
            /\ seriesRequests' = seriesRequests + 1
            /\ seriesSent' = seriesSent + 1
       ELSE /\ seriesLoading' = FALSE
            /\ seriesError' = SeriesCatchError(Undefined)
            /\ UNCHANGED <<seriesRequests, seriesSent>>

\* handleAnalyze from its await on.
SeriesFulfilled(body) ==
    /\ seriesRequests > 0
    /\ seriesRequests' = seriesRequests - 1
    /\ seriesLast' = [step |-> "fulfilled"]
    /\ seriesAnalysis' = body
    /\ seriesLoading' = FALSE
    /\ UNCHANGED <<inputData, seriesError, seriesSent>>
    /\ UNCHANGED otherThanSeries

SeriesRejected(errField) ==
    /\ seriesRequests > 0
    /\ seriesRequests' = seriesRequests - 1
    /\ seriesLast' = [step |-> "rejected"]
    /\ seriesError' = SeriesCatchError(errField)
    /\ seriesLoading' = FALSE
    /\ UNCHANGED <<inputData, seriesAnalysis, seriesSent>>
    /\ UNCHANGED otherThanSeries

\* The handlers called in any state; the page's button, disabled={loading
\* || !data}, lets through the calls made with a non-empty text while
\* nothing is loading.
SeriesNext ==
    \/ \E value \in SeriesTexts : setData(value)
    \/ seriesAnalyze
    \/ \E body \in SeriesResponseData : SeriesFulfilled(body)
    \/ \E errField \in SeriesRejectionErrors : SeriesRejected(errField)

SeriesSpec == Init /\ [][SeriesNext]_vars

(***************************************************************************)
(* DataIngestion, the revision with a file preview (DataIngestion.js,      *)
(* lines 382-445).                                                         *)
(***************************************************************************)
PreviewUploadedMessage == "Data uploaded and processed successfully"

PreviewUploadFailedMessage == "Failed to upload data"

\* e.target.result of the reader of file f: the file's text.
TextOf(f) == [t |-> "string", of |-> f.name]

\* handleFileChange: the file is stored and a FileReader started on it.
previewFileChange(selectedFile) ==
    /\ UNCHANGED <<revLoading, revError, revSuccess, preview, revDataType,
                   revSteps, revUploads, revSent>>
    /\ UNCHANGED otherThanPreview
    /\ IF selectedFile \in Files
       THEN /\ readsStarted < MaxReads
            /\ revFile' = selectedFile
            /\ readers' = [readers EXCEPT ![selectedFile] = @ + 1]
            /\ readsStarted' = readsStarted + 1
       ELSE UNCHANGED <<revFile, readers, readsStarted>>

\* reader.onload, for a reader of file f.
ReaderLoad(f) ==
    /\ readers[f] > 0
    /\ readers' = [readers EXCEPT ![f] = @ - 1]
    /\ preview' = TextOf(f)
    /\ UNCHANGED <<revFile, revLoading, revError, revSuccess, revDataType,
                   revSteps, readsStarted, revUploads, revSent>>
    /\ UNCHANGED otherThanPreview

\* A read that fails: no onerror handler is set, nothing is called.
ReaderError(f) ==
    /\ readers[f] > 0
    /\ readers' = [readers EXCEPT ![f] = @ - 1]
    /\ UNCHANGED <<revFile, revLoading, revError, revSuccess, preview,
                   revDataType, revSteps, readsStarted, revUploads, revSent>>
    /\ UNCHANGED otherThanPreview

setDataType(value) ==
    /\ revDataType' = value
    /\ UNCHANGED <<revFile, revLoading, revError, revSuccess, preview,
                   revSteps, readers, readsStarted, revUploads, revSent>>
    /\ UNCHANGED otherThanPreview

\* handlePreprocessingChange(step): [step]: !prev[step]
togglePreprocessing(step) ==
    /\ revSteps' = [revSteps EXCEPT ![step] = ~@]
    /\ UNCHANGED <<revFile, revLoading, revError, revSuccess, preview,
                   revDataType, readers, readsStarted, revUploads, revSent>>
    /\ UNCHANGED otherThanPreview

\* handleUpload up to its await.
previewUpload ==
    /\ UNCHANGED <<revFile, preview, revDataType, revSteps, readers,
                   readsStarted>>
    /\ UNCHANGED otherThanPreview
    /\ IF revFile = Null
       THEN /\ revError' = Str(SelectFileMessage)
            /\ UNCHANGED <<revLoading, revSuccess, revUploads, revSent>>
       ELSE /\ revSent < MaxPreviewUploads
            /\ revLoading' = TRUE
            /\ revError' = Null
            /\ revSuccess' = Null
            /\ revUploads' = revUploads + 1
            /\ revSent' = revSent + 1

\* handleUpload from its await on.
PreviewUploadFulfilled ==
    /\ revUploads > 0
    /\ revUploads' = revUploads - 1
    /\ revSuccess' = Str(PreviewUploadedMessage)
    /\ preview' = Null
    /\ revFile' = Null
    /\ revLoading' = FALSE
    /\ UNCHANGED <<revError, revDataType, revSteps, readers, readsStarted,
                   revSent>>
    /\ UNCHANGED otherThanPreview

PreviewUploadRejected(errField) ==
    /\ revUploads > 0
    /\ revUploads' = revUploads - 1
    /\ revError' = IF Truthy(errField) THEN errField
                   ELSE Str(PreviewUploadFailedMessage)
    /\ revLoading' = FALSE
    /\ UNCHANGED <<revFile, revSuccess, preview, revDataType, revSteps,
                   readers, readsStarted, revSent>>
    /\ UNCHANGED otherThanPreview

\* The upload button: disabled={loading || !file}.
PreviewUploadClick == ~(revLoading \/ revFile = Null) /\ previewUpload

\* The component as its page drives it.
PreviewNext ==
    \/ \E selectedFile \in Files \cup {Undefined} :
          previewFileChange(selectedFile)
    \/ \E f \in Files : ReaderLoad(f)
    \/ \E f \in Files : ReaderError(f)
    \/ \E value \in {"csv", "json"} : setDataType(value)
    \/ \E step \in {"cleanMissing", "normalize", "removeDuplicates"} :
          togglePreprocessing(step)
    \/ PreviewUploadClick
    \/ PreviewUploadFulfilled
    \/ \E errField \in RejectionErrors : PreviewUploadRejected(errField)

PreviewSpec == Init /\ [][PreviewNext]_vars

(***************************************************************************)
(* Properties.                                                             *)
(***************************************************************************)
SomeFieldEmpty(form) == \E f \in FieldNames : form[f] = <<>>

Records == {goods[i] : i \in 1..Len(goods)}

\* x > 0 as JavaScript evaluates it.
Positive(x) == Less(Zero, x)

\* C1: from a form with at least one of the seven fields empty no step, a
\* handleSubmit in particular, changes the goods list (its length, its
\* records, their order), and once such a form has been submitted the
\* validation's message is the error.
C1_IncompleteSubmitLeavesCatalog ==
    [][ /\ SomeFieldEmpty(formData) => goods' = goods
        /\ lastSubmit' = "incomplete" => error' = FillFieldsMessage ]_vars

\* A submit of an incomplete form has run on a catalog of one record, and
\* the catalog still holds that one record.
C1_Witness ==
    /\ lastSubmit = "incomplete"
    /\ accepted = 1
    /\ Len(goods) = 1
    /\ error = FillFieldsMessage

\* C2: the goods list holds one record for each submit of a complete form,
\* and each record's currentPrice is the number its price field parses to
\* (2.5 for "2.5", 7 for " 7", 10 for "10abc").
C2_CompleteSubmitAppendsParsedPrice ==
    /\ Len(goods) = accepted
    /\ \A r \in Records :
          /\ r.currentPrice = parseFloat(r.price)
          /\ r.price = <<"2", ".", "5">>
                => r.currentPrice = [cls |-> "fin", sgn |-> 1, m |-> 25, e |-> -1]
          /\ r.price = <<" ", "7">>
                => r.currentPrice = [cls |-> "fin", sgn |-> 1, m |-> 7, e |-> 0]
          /\ r.price = <<"1", "0", "a", "b", "c">>
                => r.currentPrice = [cls |-> "fin", sgn |-> 1, m |-> 1, e |-> 1]

\* A second record has been appended, its price typed as 2.5.
C2_Witness ==
    /\ Len(goods) = 2
    /\ accepted = 2
    /\ goods[2].price = <<"2", ".", "5">>
    /\ goods[2].currentPrice = ToDouble(1, 25, -1)

\* C3: every step leaves the catalog as it was or appends one record to
\* it: the catalog before the step is a prefix of the catalog after it.
C3_CatalogAppendOnly ==
    [][ /\ Len(goods) <= Len(goods')
        /\ Len(goods') <= Len(goods) + 1
        /\ SubSeq(goods', 1, Len(goods)) = goods ]_vars

\* Two records, different in what was computed for them, in the order of
\* their submits.
C3_Witness ==
    /\ Len(goods) = 2
    /\ goods[1].id < goods[2].id
    /\ goods[1].supplierPerformance # goods[2].supplierPerformance

\* C4 as stated: for every record of a positive price and every horizon,
\* up[h] > currentPrice > down[h].
C4_AsStated ==
    \A r \in Records : \A h \in Horizons :
        Positive(r.currentPrice)
            => /\ Less(r.currentPrice, r.predictions.up[h])
               /\ Less(r.predictions.down[h], r.currentPrice)

\* Whether the positive Number x is finite and at least 17 * 2^-1074.
AtLeast17Units(x) ==
    /\ Positive(x)
    /\ x.cls # "inf"
    /\ x.cls = "sub" => x.m >= 17

\* C4 (amended): for every record whose price parses to a finite number of
\* at least 17 * 2^-1074 and every horizon, up[h] > currentPrice > down[h];
\* for the other positive prices (the subnormals below that, and Infinity)
\* up[h], currentPrice and down[h] are one value.
C4_UpAboveDownBelow ==
    \A r \in Records : \A h \in Horizons :
        /\ AtLeast17Units(r.currentPrice)
              => /\ Less(r.currentPrice, r.predictions.up[h])
                 /\ Less(r.predictions.down[h], r.currentPrice)
        /\ (Positive(r.currentPrice) /\ ~ AtLeast17Units(r.currentPrice))
              => /\ r.predictions.up[h] = r.currentPrice
                 /\ r.predictions.down[h] = r.currentPrice

\* A record of the price 2.5 and one of the price 8.4e-323 (17 units of
\* 2^-1074, projected to 18 and to 16 units).
C4_Witness ==
    \E r \in Records :
        /\ r.price = <<"8", ".", "4", "e", "-", "3", "2", "3">>
        /\ r.currentPrice.cls = "sub"
        /\ r.currentPrice.m = 17
        /\ r.predictions.up[30].m = 18
        /\ r.predictions.down[60].m = 16

C6_HorizonsCarryOneValue ==
    \A r \in Records : \A h \in Horizons :
        /\ r.predictions.up[h] = Times(r.currentPrice, 103, -2)
        /\ r.predictions.down[h] = Times(r.currentPrice, 97, -2)
        /\ r.predictions.up[h] = r.predictions.up[30]
        /\ r.predictions.down[h] = r.predictions.down[30]

\* A record of the price 2.5: 2.575 up and 2.425 down at every horizon.
C6_Witness ==
    \E r \in Records :
        /\ r.currentPrice = ToDouble(1, 25, -1)
        /\ r.predictions.up[60] = ToDouble(1, 2575, -3)
        /\ r.predictions.down[50] = ToDouble(1, 2425, -3)

\* C7: the step in which the GET is rejected sets exchangeRate to exactly
\* {USD: 1, EUR: 0.85, GBP: 0.73, NGN: 460} and leaves error, loading,
\* formData and goods as they were.
C7_RejectedFetchFallsBack ==
    [][ (fetchState = "pending" /\ fetchState' = "rejected")
          => /\ exchangeRate' =
                  [t |-> "object",
                   USD |-> [cls |-> "fin", sgn |-> 1, m |-> 1, e |-> 0],
                   EUR |-> [cls |-> "fin", sgn |-> 1, m |-> 85, e |-> -2],
                   GBP |-> [cls |-> "fin", sgn |-> 1, m |-> 73, e |-> -2],
                   NGN |-> [cls |-> "fin", sgn |-> 1, m |-> 46, e |-> 1]]
             /\ error' = error
             /\ loading' = loading
             /\ formData' = formData
             /\ goods' = goods ]_vars

\* The GET was rejected while the form was being filled in and the message
\* of a failed submit was on show; the catalog holds a record.
C7_Witness ==
    /\ fetchState = "rejected"
    /\ exchangeRate = FallbackRates
    /\ error = FillFieldsMessage
    /\ formData # EmptyForm
    /\ Len(goods) = 1

\* C8: once the fetch has settled, exchangeRate is a rate table (the
\* server's or the fallback), never null or undefined.
C8_SettledFetchGivesTable ==
    fetchState # "pending" => exchangeRate.t = "object"

\* C9: every record in the catalog has a currentPrice that is a number
\* greater than zero.
C9_OnlyPositivePrices ==
    \A r \in Records : Positive(r.currentPrice)

\* C10: error is 'Please fill in all fields' exactly when the most recent
\* handleSubmit was given a form with an empty field, and the empty string
\* otherwise; it never holds any other text.
C10_ErrorTracksLatestSubmit ==
    /\ error \in {"", FillFieldsMessage}
    /\ error = FillFieldsMessage <=> lastSubmit = "incomplete"

\* A submit of a complete form, then one of an incomplete form: the
\* message is on show.
C10_Witness ==
    /\ lastSubmit = "incomplete"
    /\ accepted >= 1
    /\ error = FillFieldsMessage
    /\ fetchState = "rejected"

\* C11: between handler invocations loading is false, whatever edits,
\* submits (complete or not) and fetch outcomes came before: the submit
\* button, disabled while loading, is never left disabled.
C11_LoadingNeverLeftSet == loading = FALSE

\* An incomplete submit has followed a complete one and a failed fetch, and
\* the button is enabled.
C11_Witness ==
    /\ lastSubmit = "incomplete"
    /\ accepted >= 1
    /\ fetchState = "rejected"
    /\ formData # EmptyForm
    /\ loading = FALSE

\* The label triples a supplierPerformance can be.
Labels ==
    [onTimeDelivery : {"Good", "Poor"}, qualityScore : {"High", "Low"},
     riskLevel : {"Low", "High"}]

\* C12: every record's supplierPerformance has onTimeDelivery Good or Poor,
\* qualityScore High or Low and riskLevel Low or High, and whatever complete
\* form is about to be submitted, each of the eight label triples is the
\* supplierPerformance of the record handleSubmit builds from it for some
\* values of its three Math.random() calls.
C12_LabelsInRangeAndFree ==
    /\ \A r \in Records : r.supplierPerformance \in Labels
    /\ ~SomeFieldEmpty(formData)
          => \A c \in Labels : \E r1, r2, r3 \in RandomDraws :
                NewGoods(formData, DateNow(goods), r1, r2, r3).supplierPerformance = c

\* A record of cost 7 has been classified Poor, Low, High after one
\* classified Good, High, Low.
C12_Witness ==
    /\ Len(goods) = 2
    /\ goods[1].supplierPerformance =
          [onTimeDelivery |-> "Good", qualityScore |-> "High", riskLevel |-> "Low"]
    /\ goods[2].supplierPerformance =
          [onTimeDelivery |-> "Poor", qualityScore |-> "Low", riskLevel |-> "High"]
    /\ goods[2].cost = <<"7">>

\* C13: two records submitted with the same seven form fields, the same
\* supplierId in particular, carry the same supplierPerformance.
C13_ClassificationDeterministic ==
    \A r, q \in Records :
        (\A f \in FieldNames : r[f] = q[f])
            => r.supplierPerformance = q.supplierPerformance

\* C14: any two records of the catalog submitted with the same price carry
\* the same predictions, whatever their other fields, whatever the catalog
\* held and whatever the exchange-rate fetch had done when each was
\* submitted; and the submit that appends a record leaves the earlier
\* records, exchangeRate and the fetch as they were.
C14_PredictionsFromPriceAlone ==
    [][ /\ \A i, j \in 1..Len(goods') :
              goods'[i].price = goods'[j].price
                  => goods'[i].predictions = goods'[j].predictions
        /\ accepted' = accepted + 1
              => /\ Len(goods') = Len(goods) + 1
                 /\ SubSeq(goods', 1, Len(goods)) = goods
                 /\ exchangeRate' = exchangeRate
                 /\ fetchState' = fetchState
                 /\ getsIssued' = getsIssued ]_vars

\* Two records of the same price and of different goodsId and cost, the
\* fetch having fallen back in between or after.
C14_Witness ==
    /\ Len(goods) = 2
    /\ goods[1].price = goods[2].price
    /\ goods[1].cost # goods[2].cost
    /\ goods[1].goodsId # goods[2].goodsId
    /\ goods[1].predictions = goods[2].predictions
    /\ exchangeRate = FallbackRates

\* C15: a submit of a complete form whose goodsId is that of a record
\* already in the catalog is accepted like any other: it raises no error
\* and appends one more record carrying that goodsId, after the records
\* that were there.
C15_DuplicateGoodsIdAppended ==
    [][ (/\ accepted' = accepted + 1
         /\ \E i \in 1..Len(goods) : goods[i].goodsId = formData.goodsId)
            => /\ Len(goods') = Len(goods) + 1
               /\ SubSeq(goods', 1, Len(goods)) = goods
               /\ goods'[Len(goods')].goodsId = formData.goodsId
               /\ error' = "" ]_vars

\* The catalog holds two records of one goodsId.
C15_Witness ==
    /\ Len(goods) = 2
    /\ goods[1].goodsId = goods[2].goodsId
    /\ goods[1].id # goods[2].id
    /\ lastSubmit = "complete"

\* C16: one GET has been sent at mount and no step sends another; only the
\* step that settles that GET writes exchangeRate, and once the GET has
\* settled, rejected or fulfilled, exchangeRate and the fetch stay as
\* they are through every later edit and submit.
C16_OneRequestOneWrite ==
    [][ /\ getsIssued = 1
        /\ getsIssued' = 1
        /\ exchangeRate' # exchangeRate
              => (fetchState = "pending" /\ fetchState' # "pending")
        /\ fetchState # "pending"
              => (fetchState' = fetchState /\ exchangeRate' = exchangeRate) ]_vars

\* The GET was rejected, two submits were accepted and an incomplete one
\* made, and still one GET has been sent.
C16_Witness ==
    /\ fetchState = "rejected"
    /\ exchangeRate = FallbackRates
    /\ accepted = 2
    /\ lastSubmit = "incomplete"
    /\ getsIssued = 1

\* C17: in every state monitoring is set only if analysis is set, whatever
\* the order of file selections, analyze clicks and arrivals of the
\* analyze and monitoring responses.
C17_MonitoringOnlyWithAnalysis == monitoring # Null => analysis # Null

\* C18: in every state an analysis that is set is the backend's result for
\* the file now selected, a file selected while the request for another
\* was in flight included.
C18_AnalysisOfSelectedFile ==
    analysis # Null => (file # Null /\ analysis.of = file.name)

\* C19: a handleAnalyze call made with a file selected sends one analyze
\* request and leaves loading true; the step on which an analyze request
\* settles, whether fulfilled with a result, fulfilled with an error body
\* or rejected, leaves loading false, monitoring requests in flight or
\* not; a call made with no file selected leaves 'Please select a file
\* first' as the error, sends nothing and leaves loading as it was.
C19_LoadingBracketsAnalyze ==
    [][ /\ (lastStep' = "handleAnalyze" /\ file # Null)
              => /\ analysisLoading' = TRUE
                 /\ analyzeSent' = analyzeSent + 1
                 /\ analyzeRequests'[file] = analyzeRequests[file] + 1
        /\ lastStep' = "analyzeSettled" => analysisLoading' = FALSE
        /\ (lastStep' = "handleAnalyze" /\ file = Null)
              => /\ analysisError' = SelectFileMessage
                 /\ analyzeSent' = analyzeSent
                 /\ analyzeRequests' = analyzeRequests
                 /\ monitoringRequests' = monitoringRequests
                 /\ analysisLoading' = analysisLoading ]_vars

\* An analyze request has just settled with a result: loading is false
\* while the monitoring request it started is still in flight.
C19_Witness ==
    /\ lastStep = "analyzeSettled"
    /\ analysis # Null
    /\ monitoringRequests > 0
    /\ analysisLoading = FALSE

\* C20: the step on which an analyze request is fulfilled with a body whose
\* error field is a non-empty string leaves that string as the error,
\* finds analysis null and leaves it null, and sends no monitoring
\* request.
C20_ErrorBodyStopsAnalysis ==
    [][ (/\ lastStep' = "analyzeSettled"
         /\ lastResponse'.t = "object"
         /\ lastResponse'.error.t = "string"
         /\ lastResponse'.error.s # "")
            => /\ analysisError' = lastResponse'.error.s
               /\ analysis = Null
               /\ analysis' = Null
               /\ monitoringRequests' = monitoringRequests ]_vars

\* An analyze request has just been answered with an error body.
C20_Witness ==
    /\ lastStep = "analyzeSettled"
    /\ lastResponse.t = "object"
    /\ lastResponse.error = Str("Unsupported file format")
    /\ analysisError = "Unsupported file format"
    /\ analysis = Null
    /\ monitoringRequests = 0
    /\ analysisLoading = FALSE

\* C21: in every state of DataIngestion at most one of the success message
\* and the error message is non-empty.
C21_SuccessAndErrorExclusive == ~(success # "" /\ ingestError # "")

\* C22: in every state of DataIngestion an open success snackbar has a
\* success message to show and an open error snackbar an error message.
C22_OpenSnackbarHasMessage ==
    /\ openSuccess => success # ""
    /\ openError => ingestError # ""

\* What C23 says of every step of App but the third branch's message: a
\* rejection with code ECONNABORTED leaves the timeout message, response or
\* not; any other rejection without a response leaves the network-error
\* message; every rejection finds results null, leaves it null and leaves
\* loading false; an analyzeText call on text that trims to nothing sends
\* no request and changes neither results nor loading.
C23_Common ==
    /\ appLast'.step = "rejected"
          => /\ appLast'.err.code = "ECONNABORTED" => appError' = TimedOutMessage
             /\ (appLast'.err.code # "ECONNABORTED"
                    /\ appLast'.err.response = Undefined)
                   => appError' = NetworkErrorMessage
             /\ results = Null
             /\ results' = Null
             /\ appLoading' = FALSE
    /\ (appLast'.step = "analyzeText" /\ Trim(text) = <<>>)
          => /\ textRequests' = textRequests
             /\ textSent' = textSent
             /\ results' = results
             /\ appLoading' = appLoading

\* C23 as stated: the above, and a rejection that carries a response and
\* another code leaves 'Error analyzing text: ' followed by the body's
\* error field where the body has one, by the exception's message where it
\* has none.
C23_AsStated ==
    [][ /\ C23_Common
        /\ (/\ appLast'.step = "rejected"
            /\ appLast'.err.code # "ECONNABORTED"
            /\ appLast'.err.response # Undefined)
              => appError' =
                    AnalyzingTextPrefix
                       \o (IF appLast'.err.response.error.t = "string"
                           THEN appLast'.err.response.error.s
                           ELSE appLast'.err.message) ]_vars

\* C23 amended: the same, the exception's message following the prefix
\* also where the body's error field is the empty string.
C23_FailureClassified ==
    [][ /\ C23_Common
        /\ (/\ appLast'.step = "rejected"
            /\ appLast'.err.code # "ECONNABORTED"
            /\ appLast'.err.response # Undefined)
              => appError' =
                    AnalyzingTextPrefix
                       \o (IF /\ appLast'.err.response.error.t = "string"
                              /\ appLast'.err.response.error.s # ""
                           THEN appLast'.err.response.error.s
                           ELSE appLast'.err.message) ]_vars

\* A request has just timed out with no response: the timeout message is
\* shown, not the network-error one.
C23_Witness ==
    /\ appLast.step = "rejected"
    /\ appLast.err.code = "ECONNABORTED"
    /\ appLast.err.response = Undefined
    /\ appError = TimedOutMessage
    /\ results = Null
    /\ appLoading = FALSE

\* The typed texts JSON.parse throws on.
InvalidJsonTexts ==
    { <<>>,
      <<"[", "1", ",">>,
      <<"[", "0", "1", "]">>,
      <<"[", "1", ",", "2", "]", "x">>,
      <<"a", "b", "c">> }

\* C24: a handleAnalyze call of TimeSeriesAnalysis on a text that is not
\* valid JSON sends no request, leaves the generic message as the error,
\* leaves loading false and leaves the stored analysis as it was; a call
\* on any other typed text sends one request; and a rejected request too
\* leaves the stored analysis as it was and loading false.
C24_InvalidJsonKeepsAnalysis ==
    [][ /\ (seriesLast'.step = "handleAnalyze" /\ inputData \in InvalidJsonTexts)
              => /\ seriesRequests' = seriesRequests
                 /\ seriesSent' = seriesSent
                 /\ seriesError' = SeriesFailedMessage
                 /\ seriesLoading' = FALSE
                 /\ seriesAnalysis' = seriesAnalysis
        /\ (seriesLast'.step = "handleAnalyze" /\ inputData \notin InvalidJsonTexts)
              => /\ seriesSent' = seriesSent + 1
                 /\ seriesAnalysis' = seriesAnalysis
        /\ seriesLast'.step = "rejected"
              => /\ seriesAnalysis' = seriesAnalysis
                 /\ seriesLoading' = FALSE ]_vars

\* handleAnalyze has just been called on the text '[1,' while an analysis
\* was displayed: the analysis is still there, under the generic message.
C24_Witness ==
    /\ seriesLast.step = "handleAnalyze"
    /\ inputData = <<"[", "1", ",">>
    /\ seriesAnalysis # Null
    /\ seriesError = SeriesFailedMessage
    /\ seriesLoading = FALSE
    /\ seriesRequests = 0

\* C25: in every state of the preview revision of DataIngestion a preview
\* is set only if a file is selected, whatever the order of selections,
\* FileReader onload callbacks, uploads and upload responses.
C25_PreviewOnlyWithFile == preview # Null => revFile # Null

====
